---- MODULE Spec2Model ----
(***************************************************************************)
(* State-machine model of src/js/main.js: the behaviour layer of a        *)
(* single-page bilingual site.  The script is one IIFE that looks up its  *)
(* DOM elements, runs init() and then reacts to browser events.  Each     *)
(* action below is one run of the script body or one dispatched browser   *)
(* event with every listener the script attached for it.                  *)
(***************************************************************************)
EXTENDS Integers, Sequences, FiniteSets, TLC

\* ------------------------------------------------------------------ bounds
NumTranslatables == 2
NumLangBtns == 2
NumGallery == 2
NumReveal == 3
MaxTimers == 2
MaxRaf == 4
MaxRevealRuns == 2
NumItems == 3
MaxDebounce == 2
MaxBurst == 3

\* ------------------------------------------------------- program constants
HeaderThreshold == 50
BackToTopThreshold == 500
StaggerMs == 80
DebounceWait == 100

VARIABLES
    pc,          \* "loading" before the script body ran, "ready" after it
    page,        \* which looked-up elements exist in the document
    wired,       \* controllers whose listeners init() attached
    uncaught,    \* where an exception escaped a run of the script's code
    lastEvent,   \* the event dispatched last and the branch its handler took
    data,        \* data-fr / data-en of each translatable element
    langBtns,    \* data-lang of each .lang-switch__btn, and where it sits
    currentLang, \* let currentLang
    docLang,     \* document.documentElement.lang
    btnActive,   \* 'active' class of each language button
    content,     \* child nodes of each translatable element
    dom,         \* menu / toggle / lightbox classes and body overflow
    timers,      \* pending setTimeout callbacks, oldest first
    scrollReq,   \* the last window.scrollTo request
    scrollY,     \* window.scrollY
    headerScrolled, \* 'header--scrolled' class of #header
    lastScrollY, \* initHeader's let lastScrollY
    hTicking,    \* initHeader's let ticking
    bttVisible,  \* 'visible' class of #back-to-top
    bTicking,    \* initBackToTop's let ticking
    rafQueue,    \* callbacks handed to requestAnimationFrame, not yet run
    revealCls,   \* 'reveal' class of each reveal candidate
    visible,     \* 'visible' class of each reveal candidate
    observed,    \* targets the IntersectionObserver observes
    delay,       \* style.transitionDelay of each candidate (<<>>: unset)
    isIntersecting, \* whether each candidate intersects the viewport now
    revealRuns,  \* how often the reveal branch ran for each candidate
    targetTop,   \* document position of the element "#section" resolves to
    headerHeight, \* elements.header.offsetHeight
    accordion,   \* aria-expanded / 'active' of each .accordion__item
    atelier,     \* aria-expanded / 'active' of each .atelier-card
    innerHeight, \* window.innerHeight
    vh,          \* the --vh custom property, in hundredths of a pixel
    debTimers,   \* remaining ms of each pending debounce timeout
    sinceResize, \* ms since the last resize event (capped at the wait)
    vhRuns,      \* runs of setViewportHeight since the last resize event
    burst        \* resize events since no debounce timeout was pending (capped)

cfgVars == <<page, data, langBtns>>
ctlVars == <<pc, wired, uncaught>>
langVars == <<currentLang, docLang, btnActive, content>>
overlayVars == <<dom, timers, scrollReq>>
scrollVars ==
    <<scrollY, headerScrolled, lastScrollY, hTicking, bttVisible, bTicking,
      rafQueue>>
revealVars ==
    <<revealCls, visible, observed, delay, isIntersecting, revealRuns>>
layoutVars == <<targetTop, headerHeight>>
accVars == <<accordion, atelier>>
resizeVars == <<innerHeight, vh, debTimers, sinceResize, vhRuns, burst>>
extraVars == <<layoutVars, accVars, resizeVars>>
vars ==
    <<ctlVars, lastEvent, cfgVars, langVars, overlayVars, scrollVars,
      revealVars, extraVars>>

\* ------------------------------------------------------------ DOM strings
\* A string is a sequence of tokens; "<br>" is the one markup token.
BR == "<br>"
Translatables == 1..NumTranslatables
LangBtnIds == 1..NumLangBtns
SupportedLangs == {"fr", "en"}
BtnLangs == {"fr", "en", "de"}

\* the data-fr / data-en pairs an element may carry ([data-fr][data-en]:
\* both attributes exist, either may be empty)
TranslationPairs ==
    { [fr |-> <<"Bonjour">>, en |-> <<"Hello">>],
      [fr |-> <<"Bon", BR, "jour">>, en |-> <<"Hel", BR, "lo">>],
      [fr |-> <<"Bonjour">>, en |-> <<"Hel", BR, "lo">>],
      [fr |-> <<"Bonjour">>, en |-> <<>>],
      [fr |-> <<>>, en |-> <<"Hello">>] }

\* String.prototype.includes(sub): some token of s holds the substring
TokenIncludes(tok, sub) == tok = sub \/ (tok = BR /\ sub = "<")
includes(s, sub) == \E i \in 1..Len(s) : TokenIncludes(s[i], sub)

TextNode(toks) == [type |-> "text", data |-> toks]
BrNode == [type |-> "br", data |-> <<>>]

\* el.textContent = s : one text node holding s verbatim (none for "")
SetTextContent(s) == IF s = <<>> THEN <<>> ELSE << TextNode(s) >>

\* el.innerHTML = s : the HTML parser turns "<br>" into an element and
\* gathers adjacent character tokens into one text node
RECURSIVE ParseHTML(_, _)
ParseHTML(s, acc) ==
    IF s = <<>> THEN acc
    ELSE IF Head(s) = BR THEN ParseHTML(Tail(s), Append(acc, BrNode))
    ELSE IF acc # <<>> /\ acc[Len(acc)].type = "text"
         THEN ParseHTML(Tail(s),
                [acc EXCEPT ![Len(acc)].data = Append(@, Head(s))])
         ELSE ParseHTML(Tail(s), Append(acc, TextNode(<<Head(s)>>)))
SetInnerHTML(s) == ParseHTML(s, <<>>)

\* reading el.textContent back: the text nodes' data, elements add nothing
RECURSIVE GetTextContent(_)
GetTextContent(nodes) ==
    IF nodes = <<>> THEN <<>>
    ELSE (IF Head(nodes).type = "text" THEN Head(nodes).data ELSE <<>>)
         \o GetTextContent(Tail(nodes))

\* reading el.innerHTML back: elements as tags, '<' in text escaped
EscapeToken(tok) == IF TokenIncludes(tok, "<") THEN "&lt;br&gt;" ELSE tok
RECURSIVE GetInnerHTML(_)
GetInnerHTML(nodes) ==
    IF nodes = <<>> THEN <<>>
    ELSE (IF Head(nodes).type = "br" THEN <<BR>>
          ELSE [i \in 1..Len(Head(nodes).data) |->
                    EscapeToken(Head(nodes).data[i])])
         \o GetInnerHTML(Tail(nodes))

\* ------------------------------------------------------------ the document
Present ==
    [header |-> TRUE, menuToggle |-> TRUE, mobileMenu |-> TRUE,
     backToTop |-> TRUE, atelierHeader |-> TRUE, lightbox |-> TRUE,
     io |-> TRUE]
\* any of the looked-up elements may be missing from a page
Pages ==
    [header : BOOLEAN, menuToggle : BOOLEAN, mobileMenu : BOOLEAN,
     backToTop : BOOLEAN, atelierHeader : BOOLEAN, lightbox : BOOLEAN,
     io : BOOLEAN]

GalleryImgs == 1..NumGallery
RevealEls == 1..NumReveal
ScrollPositions ==
    {0, HeaderThreshold, HeaderThreshold + 1, BackToTopThreshold,
     BackToTopThreshold + 1}
Keys == {"Escape", "Enter"}
\* href of a link: the bare placeholder, a fragment that resolves, one that
\* does not, and (mobile links only) a link to another page
AnchorHrefs == {"#", "#section", "#missing"}
LinkHrefs == AnchorHrefs \cup {"page.html"}
TargetTops == {0, 900}
HeaderHeights == {60, 80}

Event(type, arg, branch) == [type |-> type, arg |-> arg, branch |-> branch]

\* ------------------------------------------------------------------ init()
InitOrder ==
    << "setCurrentYear", "initHeader", "initMobileMenu",
       "initLanguageSwitcher", "initSmoothScroll", "initAccordions",
       "initAtelierCards", "initBackToTop", "initRevealAnimations",
       "initTouchOptimization", "initLightbox" >>

\* a step of init() that dereferences a null element
StepThrows(step) ==
    \/ step = "initHeader" /\ ~page.header
    \/ step = "initAtelierCards" /\ ~page.atelierHeader

StepIndex(step) == CHOOSE i \in 1..Len(InitOrder) : InitOrder[i] = step
\* init() gets through `step` when neither it nor an earlier step throws
Completes(step) ==
    \A i \in 1..StepIndex(step) : ~StepThrows(InitOrder[i])
initThrows == \E i \in 1..Len(InitOrder) : StepThrows(InitOrder[i])

\* the early returns of the controllers
initMobileMenuWires == page.menuToggle /\ page.mobileMenu
initBackToTopWires == page.backToTop
initRevealWires == page.io
initLightboxWires == page.lightbox

WiredByInit ==
    {"resize"}
    \cup (IF Completes("initHeader") THEN {"header"} ELSE {})
    \cup (IF Completes("initMobileMenu") /\ initMobileMenuWires
          THEN {"menu"} ELSE {})
    \cup (IF Completes("initLanguageSwitcher") THEN {"lang"} ELSE {})
    \cup (IF Completes("initSmoothScroll") THEN {"smooth"} ELSE {})
    \cup (IF Completes("initAccordions") THEN {"accordion"} ELSE {})
    \cup (IF Completes("initAtelierCards") THEN {"atelier"} ELSE {})
    \cup (IF Completes("initBackToTop") /\ initBackToTopWires
          THEN {"backToTop"} ELSE {})
    \cup (IF Completes("initRevealAnimations") /\ initRevealWires
          THEN {"reveal"} ELSE {})
    \cup (IF Completes("initTouchOptimization") THEN {"touch"} ELSE {})
    \cup (IF Completes("initLightbox") /\ initLightboxWires
          THEN {"lightbox"} ELSE {})

\* ------------------------------------------------------------- mobile menu
closeMenuThrows == ~page.mobileMenu \/ ~page.menuToggle

\* mutation: closeMenu() forgets to release the scroll lock
closeMenu_keepLock(d) ==
    [d EXCEPT !.menuActive = FALSE, !.toggleActive = FALSE,
              !.ariaExpanded = "false"]

\* closeMenu(): the statements before the first null dereference take effect
closeMenu(d) ==
    IF ~page.mobileMenu THEN d
    ELSE IF ~page.menuToggle THEN [d EXCEPT !.menuActive = FALSE]
    ELSE [d EXCEPT !.menuActive = FALSE, !.toggleActive = FALSE,
                   !.ariaExpanded = "false", !.overflow = ""]

openMenu_noAria(d) ==
    [d EXCEPT !.menuActive = TRUE, !.toggleActive = TRUE,
              !.overflow = "hidden"]

openMenu(d) ==
    [d EXCEPT !.menuActive = TRUE, !.toggleActive = TRUE,
              !.ariaExpanded = "true", !.overflow = "hidden"]

toggleMenu(d) == IF d.menuActive THEN closeMenu(d) ELSE openMenu(d)

\* the document's click listener of initMobileMenu
documentClick(d, inMenu, inToggle) ==
    IF "menu" \in wired /\ d.menuActive /\ ~inMenu /\ ~inToggle
    THEN closeMenu(d) ELSE d

menuKeydown_anyKey(d, key) ==
    IF "menu" \in wired /\ d.menuActive THEN closeMenu(d) ELSE d

\* the document's keydown listener of initMobileMenu
menuKeydown(d, key) ==
    IF "menu" \in wired /\ key = "Escape" /\ d.menuActive
    THEN closeMenu(d) ELSE d

\* ---------------------------------------------------------------- lightbox
openLightbox(d, img) ==
    [d EXCEPT !.lbSrc = img, !.lbAlt = img, !.lbActive = TRUE,
              !.overflow = "hidden"]

closeLightbox(d) == [d EXCEPT !.lbActive = FALSE, !.overflow = ""]

lightboxKeydownCloses(d, key) ==
    "lightbox" \in wired /\ key = "Escape" /\ d.lbActive

\* ----------------------------------------------------------- smooth scroll
\* the anchor's click listener gets past both of its guards
\* document.querySelector(href) finds an element
Resolves(href) == href = "#section"

smoothScrollActs(href) ==
    "smooth" \in wired /\ href \in AnchorHrefs /\ href # "#"
    /\ Resolves(href)

smoothScrollDom(d, href) == IF smoothScrollActs(href) THEN closeMenu(d) ELSE d

smoothScrollThrows(href) == smoothScrollActs(href) /\ closeMenuThrows

smoothScrollReq(req, href, top, hHeight) ==
    IF smoothScrollActs(href) /\ ~closeMenuThrows
    THEN << top - hHeight >> ELSE req

\* ------------------------------------------------------- language switcher
\* el.dataset[lang]: the attribute's value, or nothing (undefined)
Dataset(e, lang) == IF lang \in DOMAIN data[e] THEN {data[e][lang]} ELSE {}
\* if (translation): undefined and "" are falsy
Truthy(opt) == opt # {} /\ opt # {<<>>}

\* mutation: every translation is assigned through textContent
renderTranslation_textOnly(translation) == SetTextContent(translation)

\* the innerHTML / textContent branch of switchLanguage
renderTranslation(translation) ==
    IF includes(translation, BR) \/ includes(translation, "<")
    THEN SetInnerHTML(translation)
    ELSE SetTextContent(translation)

\* mutation: the `if (translation)` guard is dropped, so an empty or absent
\* value overwrites the element
switchLanguage_blank(lang, cont) ==
    [e \in Translatables |->
        LET translation == Dataset(e, lang)
        IN  IF translation = {} THEN SetTextContent(<<"undefined">>)
            ELSE renderTranslation(CHOOSE v \in translation : TRUE)]

switchLanguage(lang, cont) ==
    [e \in Translatables |->
        LET translation == Dataset(e, lang)
        IN  IF Truthy(translation)
            THEN renderTranslation(CHOOSE v \in translation : TRUE)
            ELSE cont[e]]

\* mutation: no early return for the active language
langClickSwitches_always(i) == "lang" \in wired

\* the listener runs past `if (lang === currentLang) return`
langClickSwitches(i) == "lang" \in wired /\ langBtns[i].lang # currentLang

\* mutation: the clicked button is marked, the others are not cleared
markActive_keepOthers(i) == [b \in LangBtnIds |-> btnActive[b] \/ b = i]

\* remove 'active' from every button, add it to the clicked one
markActive(i) == [b \in LangBtnIds |-> b = i]

\* -------------------------------------------------- header and back-to-top
\* mutations: the threshold itself already counts as scrolled
updateHeaderClass_ge(y) == y >= HeaderThreshold
updateButtonClass_ge(y) == y >= BackToTopThreshold

updateHeaderClass(y) == y > HeaderThreshold
updateButtonClass(y) == y > BackToTopThreshold

\* mutation: the header's scroll listener ignores its ticking flag
headerScrollSchedules_always == "header" \in wired

\* the scroll listeners' `if (!ticking)`
headerScrollSchedules == "header" \in wired /\ ~hTicking
buttonScrollSchedules == "backToTop" \in wired /\ ~bTicking

InQueue(cb) == \E i \in 1..Len(rafQueue) : rafQueue[i] = cb
Pending(cb) == Cardinality({i \in 1..Len(rafQueue) : rafQueue[i] = cb})

\* ------------------------------------------------------- reveal animations
\* the document's layout: candidates 1,2 share a parent, 3,4 the next, ...
ParentOf(e) == (e + 1) \div 2
revealIndex(e) ==
    IF revealCls[e]
    THEN Cardinality({c \in RevealEls :
                        ParentOf(c) = ParentOf(e) /\ revealCls[c] /\ c < e})
    ELSE 0 - 1
revealDelay(e, old) ==
    IF revealIndex(e) > 0 THEN << revealIndex(e) * StaggerMs >> ELSE old
\* mutation: revealed targets stay observed
unobserve_never(obs, revealed) == obs

\* observer.unobserve(entry.target) for every target that was revealed
unobserve(obs, revealed) == obs \ revealed

\* --------------------------------------------------------- viewport height
\* setViewportHeight(): --vh = innerHeight * 0.01 px, kept here in
\* hundredths of a pixel
setViewportHeight(h) == h

\* =============================================================== actions
\* The controllers share no state but `dom` (the menu, the lightbox and the
\* body's scroll lock), so each controller has a specification of its own:
\* SpecLang, SpecOverlay, SpecPages, SpecScroll, SpecReveal.

\* The script body: <script> runs the IIFE, which calls init().
IIFE ==
    /\ pc = "loading"
    /\ pc' = "ready"
    /\ wired' = WiredByInit
    /\ uncaught' = IF initThrows THEN uncaught \cup {"init"} ELSE uncaught
    /\ headerScrolled' =
         IF Completes("initHeader") THEN updateHeaderClass(scrollY)
         ELSE headerScrolled
    /\ lastScrollY' = IF Completes("initHeader") THEN scrollY ELSE lastScrollY
    /\ hTicking' = FALSE
    /\ bttVisible' =
         IF Completes("initBackToTop") /\ initBackToTopWires
         THEN updateButtonClass(scrollY) ELSE bttVisible
    /\ bTicking' = FALSE
    /\ revealCls' =
         IF Completes("initRevealAnimations") /\ initRevealWires
         THEN [e \in RevealEls |-> TRUE] ELSE revealCls
    /\ observed' =
         IF Completes("initRevealAnimations") /\ initRevealWires
         THEN RevealEls ELSE observed
    /\ lastEvent' = Event("load", 0, IF initThrows THEN "threw" ELSE "done")
    /\ vh' = setViewportHeight(innerHeight)
    /\ UNCHANGED <<cfgVars, langVars, overlayVars, scrollY, rafQueue,
                   visible, delay, isIntersecting, revealRuns, layoutVars,
                   accVars, innerHeight, debTimers, sinceResize, vhRuns,
                   burst>>

\* click on language button i
ClickLangBtn(i) ==
    /\ pc = "ready"
    /\ IF langClickSwitches(i)
       THEN /\ currentLang' = langBtns[i].lang
            /\ btnActive' = markActive(i)
            /\ docLang' = langBtns[i].lang
            /\ content' = switchLanguage(langBtns[i].lang, content)
       ELSE UNCHANGED langVars
    /\ dom' = documentClick(dom, langBtns[i].inMenu, FALSE)
    /\ lastEvent' =
         Event("click:langBtn", i,
               IF langClickSwitches(i) THEN "switch" ELSE "return")
    /\ UNCHANGED <<extraVars, ctlVars, cfgVars, timers, scrollReq, scrollVars,
                   revealVars>>

\* click on #menu-toggle (stopPropagation: the document never sees it)
ClickToggle ==
    /\ pc = "ready"
    /\ page.menuToggle
    /\ dom' = IF "menu" \in wired THEN toggleMenu(dom) ELSE dom
    /\ lastEvent' =
         Event("click:toggle", 0,
               IF "menu" \notin wired THEN ""
               ELSE IF dom.menuActive THEN "close" ELSE "open")
    /\ UNCHANGED <<extraVars, ctlVars, cfgVars, langVars, timers, scrollReq,
                   scrollVars, revealVars>>

\* what the anchor's listener did: 0 it returned at a guard (or is not
\* attached), 1 preventDefault() and then closeMenu() threw, 2 preventDefault(),
\* closeMenu() and scrollTo()
smoothScrollCode(href) ==
    IF ~smoothScrollActs(href) THEN 0
    ELSE IF closeMenuThrows THEN 1 ELSE 2

\* click on a .mobile-menu__link (inside the menu) with the given href
ClickMobileLink(href) ==
    /\ pc = "ready"
    /\ LET d1 == IF "menu" \in wired THEN closeMenu(dom) ELSE dom
           d2 == smoothScrollDom(d1, href)
       IN  dom' = documentClick(d2, TRUE, FALSE)
    /\ scrollReq' = smoothScrollReq(scrollReq, href, targetTop, headerHeight)
    /\ uncaught' =
         IF smoothScrollThrows(href) THEN uncaught \cup {"click"}
         ELSE uncaught
    /\ lastEvent' = Event("click:mobileLink", smoothScrollCode(href), href)
    /\ UNCHANGED <<extraVars, pc, wired, cfgVars, langVars, timers,
                   scrollVars, revealVars>>

\* click on an a[href^="#"] outside the menu
ClickAnchor(href) ==
    /\ pc = "ready"
    /\ dom' = documentClick(smoothScrollDom(dom, href), FALSE, FALSE)
    /\ scrollReq' = smoothScrollReq(scrollReq, href, targetTop, headerHeight)
    /\ uncaught' =
         IF smoothScrollThrows(href) THEN uncaught \cup {"click"}
         ELSE uncaught
    /\ lastEvent' = Event("click:anchor", smoothScrollCode(href), href)
    /\ UNCHANGED <<extraVars, pc, wired, cfgVars, langVars, timers,
                   scrollVars, revealVars>>

\* click inside the menu panel, not on a link
ClickMenuPanel ==
    /\ pc = "ready"
    /\ page.mobileMenu
    /\ dom' = documentClick(dom, TRUE, FALSE)
    /\ lastEvent' = Event("click:panel", 0, "")
    /\ UNCHANGED <<extraVars, ctlVars, cfgVars, langVars, timers, scrollReq,
                   scrollVars, revealVars>>

\* click on an element with no listener, outside menu and toggle
ClickElsewhere ==
    /\ pc = "ready"
    /\ dom' = documentClick(dom, FALSE, FALSE)
    /\ lastEvent' =
         Event("click:elsewhere", 0,
               IF "menu" \in wired /\ dom.menuActive THEN "close" ELSE "")
    /\ UNCHANGED <<extraVars, ctlVars, cfgVars, langVars, timers, scrollReq,
                   scrollVars, revealVars>>

\* click on gallery image g ([data-lightbox], outside the menu)
ClickGalleryImg(g) ==
    /\ pc = "ready"
    /\ LET d1 == IF "lightbox" \in wired THEN openLightbox(dom, g) ELSE dom
       IN  dom' = documentClick(d1, FALSE, FALSE)
    /\ lastEvent' =
         Event("click:gallery", g, IF "lightbox" \in wired THEN "open" ELSE "")
    /\ UNCHANGED <<extraVars, ctlVars, cfgVars, langVars, timers, scrollReq,
                   scrollVars, revealVars>>

\* click on #lightbox-close, or on the #lightbox backdrop itself: both run
\* closeLightbox(), then the click reaches the document
ClickLightboxClose(onBackdrop) ==
    /\ pc = "ready"
    /\ "lightbox" \in wired => Len(timers) < MaxTimers
    /\ LET d1 == IF "lightbox" \in wired THEN closeLightbox(dom) ELSE dom
       IN  dom' = documentClick(d1, FALSE, FALSE)
    /\ timers' =
         IF "lightbox" \in wired THEN Append(timers, "clearLightboxSrc")
         ELSE timers
    /\ lastEvent' =
         Event(IF onBackdrop THEN "click:lbBackdrop" ELSE "click:lbClose", 0,
               IF "lightbox" \in wired THEN "close" ELSE "")
    /\ UNCHANGED <<extraVars, ctlVars, cfgVars, langVars, scrollReq, scrollVars,
                   revealVars>>

\* click on #lightbox-image: e.target is not the lightbox, nothing closes
ClickLightboxImage ==
    /\ pc = "ready"
    /\ dom' = documentClick(dom, FALSE, FALSE)
    /\ lastEvent' = Event("click:lbImage", 0, "")
    /\ UNCHANGED <<extraVars, ctlVars, cfgVars, langVars, timers, scrollReq,
                   scrollVars, revealVars>>

\* keydown on the document: the menu's listener, then the lightbox's
Keydown(key) ==
    /\ pc = "ready"
    /\ LET d1 == menuKeydown(dom, key)
           closes == lightboxKeydownCloses(d1, key)
       IN  /\ closes => Len(timers) < MaxTimers
           /\ dom' = IF closes THEN closeLightbox(d1) ELSE d1
           /\ timers' =
                IF closes THEN Append(timers, "clearLightboxSrc") ELSE timers
    /\ lastEvent' =
         Event("keydown", 0,
               IF key # "Escape" THEN "other"
               ELSE IF "menu" \in wired /\ dom.menuActive THEN "closeMenu"
               ELSE "escape")
    /\ UNCHANGED <<extraVars, ctlVars, cfgVars, langVars, scrollReq, scrollVars,
                   revealVars>>

\* the oldest pending timeout fires (all are closeLightbox's, 400 ms each)
TimerFires ==
    /\ timers # <<>>
    /\ dom' = [dom EXCEPT !.lbSrc = 0]
    /\ timers' = Tail(timers)
    /\ lastEvent' = Event("timer", 0, Head(timers))
    /\ UNCHANGED <<extraVars, ctlVars, cfgVars, langVars, scrollReq, scrollVars,
                   revealVars>>

\* click on #back-to-top
ClickBackToTop ==
    /\ pc = "ready"
    /\ page.backToTop
    /\ scrollReq' = IF "backToTop" \in wired THEN << 0 >> ELSE scrollReq
    /\ dom' = documentClick(dom, FALSE, FALSE)
    /\ lastEvent' = Event("click:backToTop", 0, "")
    /\ UNCHANGED <<extraVars, ctlVars, cfgVars, langVars, timers, scrollVars,
                   revealVars>>

\* the window scrolls to offset y and the scroll event is dispatched
Scroll(y) ==
    /\ y # scrollY
    /\ Len(rafQueue) + 2 <= MaxRaf
    /\ scrollY' = y
    /\ rafQueue' =
         rafQueue
         \o (IF headerScrollSchedules THEN << "updateHeader" >> ELSE <<>>)
         \o (IF buttonScrollSchedules THEN << "updateButton" >> ELSE <<>>)
    /\ hTicking' = IF headerScrollSchedules THEN TRUE ELSE hTicking
    /\ bTicking' = IF buttonScrollSchedules THEN TRUE ELSE bTicking
    /\ lastEvent' =
         Event("scroll", y,
               IF headerScrollSchedules THEN "scheduled"
               ELSE IF "header" \in wired THEN "coalesced" ELSE "")
    /\ UNCHANGED <<extraVars, ctlVars, cfgVars, langVars, overlayVars, headerScrolled,
                   lastScrollY, bttVisible, revealVars>>

\* an animation frame: every queued callback runs, in order
AnimationFrame ==
    /\ rafQueue # <<>>
    /\ rafQueue' = <<>>
    /\ headerScrolled' =
         IF InQueue("updateHeader") THEN updateHeaderClass(scrollY)
         ELSE headerScrolled
    /\ lastScrollY' = IF InQueue("updateHeader") THEN scrollY ELSE lastScrollY
    /\ hTicking' = IF InQueue("updateHeader") THEN FALSE ELSE hTicking
    /\ bttVisible' =
         IF InQueue("updateButton") THEN updateButtonClass(scrollY)
         ELSE bttVisible
    /\ bTicking' = IF InQueue("updateButton") THEN FALSE ELSE bTicking
    /\ lastEvent' =
         Event("frame", 0,
               IF ~InQueue("updateButton") THEN ""
               ELSE IF bttVisible /\ ~updateButtonClass(scrollY) THEN "hide"
               ELSE IF ~bttVisible /\ updateButtonClass(scrollY) THEN "show"
               ELSE "same")
    /\ UNCHANGED <<extraVars, ctlVars, cfgVars, langVars, overlayVars, scrollY,
                   revealVars>>

\* The candidates in S cross the viewport edge (each flips between
\* intersecting and not); the observer's callback gets one entry for each
\* of them that it still observes.
IntersectionUpdate(S) ==
    /\ S # {}
    /\ \A e \in S : revealRuns[e] < MaxRevealRuns
    /\ LET revealed == {e \in S \cap observed : ~isIntersecting[e]}
       IN  /\ isIntersecting' =
                [e \in RevealEls |->
                    IF e \in S THEN ~isIntersecting[e] ELSE isIntersecting[e]]
           /\ delay' =
                [e \in RevealEls |->
                    IF e \in revealed THEN revealDelay(e, delay[e])
                    ELSE delay[e]]
           /\ visible' = [e \in RevealEls |-> visible[e] \/ e \in revealed]
           /\ observed' = unobserve(observed, revealed)
           /\ revealRuns' =
                [e \in RevealEls |->
                    IF e \in revealed THEN revealRuns[e] + 1
                    ELSE revealRuns[e]]
           /\ lastEvent' =
                Event("intersection",
                      Cardinality({e \in S : visible[e] /\ ~isIntersecting[e]}),
                      IF S \cap observed = {} THEN "unobserved"
                      ELSE IF revealed = {} THEN "leave" ELSE "reveal")
    /\ UNCHANGED <<extraVars, ctlVars, cfgVars, langVars, overlayVars, scrollVars,
                   revealCls>>

\* ======================================================== initial states
ClosedDom ==
    [menuActive |-> FALSE, toggleActive |-> FALSE, ariaExpanded |-> "false",
     overflow |-> "", lbActive |-> FALSE, lbSrc |-> 0, lbAlt |-> 0]

\* the page as parsed, before the script body runs
InitCtl ==
    /\ pc = "loading"
    /\ wired = {}
    /\ uncaught = {}
    /\ lastEvent = Event("none", 0, "")

InitLangFixed ==
    /\ data = [e \in Translatables |-> [fr |-> <<"Bonjour">>, en |-> <<"Hello">>]]
    /\ langBtns =
         [i \in LangBtnIds |->
            [lang |-> IF i % 2 = 1 THEN "fr" ELSE "en", inMenu |-> FALSE]]
    /\ currentLang = "fr"
    /\ docLang = "fr"
    /\ btnActive = [i \in LangBtnIds |-> langBtns[i].lang = "fr"]
    /\ content = [e \in Translatables |-> SetInnerHTML(data[e].fr)]

InitOverlayFixed ==
    /\ dom = ClosedDom
    /\ timers = <<>>
    /\ scrollReq = <<>>

InitScrollFixed ==
    /\ scrollY = 0
    /\ headerScrolled = FALSE
    /\ lastScrollY = 0
    /\ hTicking = FALSE
    /\ bttVisible = FALSE
    /\ bTicking = FALSE
    /\ rafQueue = <<>>

InitLayoutFixed ==
    /\ targetTop = 900
    /\ headerHeight = 80

InitAccFixed ==
    /\ accordion = [i \in 1..NumItems |-> [aria |-> "false", active |-> FALSE]]
    /\ atelier = [i \in 1..NumItems |-> [aria |-> "false", active |-> FALSE]]

InitResizeFixed ==
    /\ innerHeight = 600
    /\ vh = 0
    /\ debTimers = <<>>
    /\ sinceResize = DebounceWait
    /\ vhRuns = 0
    /\ burst = 0

InitRevealFixed ==
    /\ revealCls = [e \in RevealEls |-> FALSE]
    /\ visible = [e \in RevealEls |-> FALSE]
    /\ observed = {}
    /\ delay = [e \in RevealEls |-> <<>>]
    /\ isIntersecting = [e \in RevealEls |-> FALSE]
    /\ revealRuns = [e \in RevealEls |-> 0]

\* ------------------------------------------------- language specification
\* any translations, any language buttons, content as the markup left it
InitLang ==
    /\ InitCtl
    /\ page = Present
    /\ data \in [Translatables -> TranslationPairs]
    /\ langBtns \in [LangBtnIds -> [lang : BtnLangs, inMenu : {FALSE}]]
    /\ currentLang = "fr"
    /\ docLang = "fr"
    /\ btnActive \in
         { [i \in LangBtnIds |-> langBtns[i].lang = "fr"],
           [i \in LangBtnIds |-> FALSE] }
    /\ content \in
         [Translatables ->
            {SetInnerHTML(<<"Bonjour">>), SetInnerHTML(<<"Markup", BR>>)}]
    /\ InitOverlayFixed
    /\ InitScrollFixed
    /\ InitRevealFixed
    /\ InitLayoutFixed
    /\ InitAccFixed
    /\ InitResizeFixed

NextLang == IIFE \/ \E i \in LangBtnIds : ClickLangBtn(i)

SpecLang == InitLang /\ [][NextLang]_vars

\* ---------------------------------------------------- language properties
SwitchedByClick ==
    lastEvent.type = "click:langBtn" /\ lastEvent.branch = "switch"

\* C1: after a switch to a supported language L, every translatable element
\* with a non-empty value for L displays that value (read back as markup),
\* whatever switches came before.
C1_SwitchShowsValue ==
    (SwitchedByClick /\ currentLang \in SupportedLangs)
    => \A e \in Translatables :
          Truthy(Dataset(e, currentLang))
          => GetInnerHTML(content[e]) = data[e][currentLang]

\* a switch back to fr (so an earlier switch preceded it) that displays a
\* value holding markup
C1_Witness ==
    /\ SwitchedByClick
    /\ currentLang = "fr"
    /\ \E e \in Translatables :
          /\ includes(data[e].fr, BR)
          /\ GetInnerHTML(content[e]) = data[e].fr
          /\ Len(content[e]) = 3

\* C2: a switch leaves every element whose value for the target language is
\* absent or empty with exactly the content it had before the switch.
C2_EmptyKeepsContent ==
    [][\A i \in LangBtnIds :
          (lastEvent'.type = "click:langBtn" /\ lastEvent'.arg = i
           /\ lastEvent'.branch = "switch")
          => \A e \in Translatables :
                ~Truthy(Dataset(e, langBtns[i].lang))
                => content'[e] = content[e]]_vars

\* after a switch to en, an element with data-en="" still shows content
C2_Witness ==
    /\ SwitchedByClick
    /\ currentLang = "en"
    /\ \E e \in Translatables : data[e].en = <<>> /\ content[e] # <<>>

\* C3: a click on a selector whose code is the active language changes
\* neither content, active markers, the lang attribute nor the flag.
C3_SameLangNoOp ==
    [][\A i \in LangBtnIds :
          (lastEvent'.type = "click:langBtn" /\ lastEvent'.arg = i
           /\ langBtns[i].lang = currentLang)
          => UNCHANGED <<content, btnActive, docLang, currentLang>>]_vars

\* the clicked selector had the active code but not the active marker
C3_Witness ==
    /\ lastEvent.type = "click:langBtn"
    /\ lastEvent.branch = "return"
    /\ langBtns[lastEvent.arg].lang = currentLang
    /\ ~btnActive[lastEvent.arg]
    /\ \E j \in LangBtnIds : btnActive[j]

\* C4: after any switch exactly one selector is marked active, its code is
\* the language flag, and the document's lang attribute is that code.
C4_OneActiveMatchesLang ==
    SwitchedByClick
    => /\ Cardinality({i \in LangBtnIds : btnActive[i]}) = 1
       /\ \A i \in LangBtnIds : btnActive[i] => langBtns[i].lang = currentLang
       /\ docLang = currentLang

\* a switch on a page where two selectors carry the new code
C4_Witness ==
    /\ SwitchedByClick
    /\ currentLang = "en"
    /\ Cardinality({i \in LangBtnIds : langBtns[i].lang = "en"}) = 2
    /\ Cardinality({i \in LangBtnIds : btnActive[i]}) = 1

\* ---------------------------------------------- menu / lightbox specification
InitOverlay ==
    /\ InitCtl
    /\ page = Present
    /\ InitLangFixed
    /\ InitOverlayFixed
    /\ InitScrollFixed
    /\ InitRevealFixed
    /\ targetTop \in TargetTops
    /\ headerHeight \in HeaderHeights
    /\ InitAccFixed
    /\ InitResizeFixed

NextOverlay ==
    \/ IIFE
    \/ ClickToggle
    \/ \E href \in LinkHrefs : ClickMobileLink(href)
    \/ \E href \in AnchorHrefs : ClickAnchor(href)
    \/ ClickMenuPanel
    \/ ClickElsewhere
    \/ \E g \in GalleryImgs : ClickGalleryImg(g)
    \/ \E onBackdrop \in BOOLEAN : ClickLightboxClose(onBackdrop)
    \/ ClickLightboxImage
    \/ \E key \in Keys : Keydown(key)
    \/ TimerFires
    \/ ClickBackToTop

SpecOverlay == InitOverlay /\ [][NextOverlay]_vars

\* C5: whenever the mobile menu goes from open to closed, by whichever
\* close path, the page ends unlocked (body overflow unset).
C5_CloseUnlocksScroll ==
    [][(dom.menuActive /\ ~dom'.menuActive) => dom'.overflow = ""]_vars

\* the menu was opened from an unlocked page and Escape has just closed it
C5_Witness ==
    /\ lastEvent.type = "keydown"
    /\ lastEvent.branch = "closeMenu"
    /\ ~dom.menuActive
    /\ ~dom.lbActive
    /\ dom.lbSrc = 0
    /\ dom.overflow = ""

\* ------------------------------------------ missing-element specification
InitPages ==
    /\ InitCtl
    /\ page \in Pages
    /\ InitLangFixed
    /\ InitOverlayFixed
    /\ InitScrollFixed
    /\ InitRevealFixed
    /\ targetTop \in TargetTops
    /\ headerHeight \in HeaderHeights
    /\ InitAccFixed
    /\ InitResizeFixed

NextPages ==
    \/ IIFE
    \/ ClickToggle
    \/ \E href \in LinkHrefs : ClickMobileLink(href)
    \/ \E href \in AnchorHrefs : ClickAnchor(href)
    \/ ClickElsewhere
    \/ \E key \in Keys : Keydown(key)

SpecPages == InitPages /\ [][NextPages]_vars

\* the controllers whose required elements the page holds
ExpectedWired ==
    {"resize", "lang", "smooth", "accordion", "touch"}
    \cup (IF page.header THEN {"header"} ELSE {})
    \cup (IF page.menuToggle /\ page.mobileMenu THEN {"menu"} ELSE {})
    \cup (IF page.atelierHeader THEN {"atelier"} ELSE {})
    \cup (IF page.backToTop THEN {"backToTop"} ELSE {})
    \cup (IF page.io THEN {"reveal"} ELSE {})
    \cup (IF page.lightbox THEN {"lightbox"} ELSE {})

\* C6: whatever elements are absent, no exception escapes init() or a later
\* event handler, and init() still wires every controller whose own
\* elements are present.
C6_AbsentElementsDisable ==
    /\ uncaught = {}
    /\ pc = "ready" => ExpectedWired \subseteq wired

\* ---------------------------------------------------- scroll specification
InitScroll ==
    /\ InitCtl
    /\ page \in {Present, [Present EXCEPT !.backToTop = FALSE]}
    /\ InitLangFixed
    /\ InitOverlayFixed
    /\ scrollY \in ScrollPositions
    /\ headerScrolled \in BOOLEAN
    /\ lastScrollY = 0
    /\ hTicking = FALSE
    /\ bttVisible \in BOOLEAN
    /\ bTicking = FALSE
    /\ rafQueue = <<>>
    /\ InitRevealFixed
    /\ InitLayoutFixed
    /\ InitAccFixed
    /\ InitResizeFixed

NextScroll ==
    \/ IIFE
    \/ \E y \in ScrollPositions : Scroll(y)
    \/ AnimationFrame
    \/ ClickBackToTop

SpecScroll == InitScroll /\ [][NextScroll]_vars

\* C7: each of the two controllers has at most one update waiting for the
\* next animation frame, however many scroll events arrive.
C7_AtMostOnePending ==
    /\ Pending("updateHeader") <= 1
    /\ Pending("updateButton") <= 1

\* a scroll event arrived while an update was already pending
C7_Witness ==
    /\ lastEvent.type = "scroll"
    /\ lastEvent.branch = "coalesced"
    /\ Pending("updateHeader") = 1
    /\ Pending("updateButton") = 1

\* C8: with no header update pending, the header is in the scrolled state
\* exactly when the scroll offset is above 50.
C8_HeaderMatchesScroll ==
    ("header" \in wired /\ Pending("updateHeader") = 0)
    => (headerScrolled <=> scrollY > 50)

\* a frame has just put the header in the scrolled state at offset 51
C8_Witness ==
    /\ lastEvent.type = "frame"
    /\ headerScrolled
    /\ scrollY = 51
    /\ lastScrollY = 51

\* C9: with no back-to-top update pending, the control is visible exactly
\* when the scroll offset is above 500.
C9_BackToTopMatchesScroll ==
    ("backToTop" \in wired /\ Pending("updateButton") = 0)
    => (bttVisible <=> scrollY > 500)

\* a frame has just removed the class after scrolling back to 500
C9_Witness ==
    /\ lastEvent.type = "frame"
    /\ lastEvent.branch = "hide"
    /\ ~bttVisible
    /\ scrollY = 500

\* ---------------------------------------------------- reveal specification
InitReveal ==
    /\ InitCtl
    /\ page \in {Present, [Present EXCEPT !.io = FALSE]}
    /\ InitLangFixed
    /\ InitOverlayFixed
    /\ InitScrollFixed
    /\ InitRevealFixed
    /\ InitLayoutFixed
    /\ InitAccFixed
    /\ InitResizeFixed

NextReveal ==
    \/ IIFE
    \/ \E S \in SUBSET RevealEls : IntersectionUpdate(S)

SpecReveal == InitReveal /\ [][NextReveal]_vars

\* C10: a candidate that becomes visible is unobserved at once; from then on
\* it stays visible and no step reruns its reveal logic or changes its
\* transition delay.
C10_RevealOnce ==
    [][\A e \in RevealEls :
          /\ visible'[e] => e \notin observed'
          /\ visible[e] =>
                /\ visible'[e]
                /\ delay'[e] = delay[e]
                /\ revealRuns'[e] = revealRuns[e]]_vars

\* a visible candidate with a staggered delay has re-entered the viewport
C10_Witness ==
    /\ lastEvent.type = "intersection"
    /\ lastEvent.arg > 0
    /\ \E e \in RevealEls :
          /\ visible[e]
          /\ isIntersecting[e]
          /\ revealRuns[e] = 1
          /\ delay[e] = << StaggerMs >>

\* ----------------------------------------------- accordions and atelier cards
Items == 1..NumItems
\* an item as authored: aria-expanded 'true', 'false' or absent, the content
\* pane's 'active' class agreeing with it
ItemStates ==
    {[aria |-> "true", active |-> TRUE], [aria |-> "false", active |-> FALSE],
     [aria |-> "none", active |-> FALSE]}
\* setAttribute('aria-expanded', b) stores String(b)
BoolAttr(b) == IF b THEN "true" ELSE "false"
Collapsed == [aria |-> "false", active |-> FALSE]
Expanded(items) == {j \in Items : items[j].aria = "true"}

accordionClick_independent(items, i) ==
    [items EXCEPT ![i] = [aria |-> BoolAttr(items[i].aria # "true"),
                          active |-> ~items[i].active]]

\* the click listener of accordion header i
accordionClick(items, i) ==
    LET isExpanded == items[i].aria = "true"
    IN  [j \in Items |->
           IF j # i THEN Collapsed
           ELSE [aria |-> BoolAttr(~isExpanded), active |-> ~items[i].active]]

atelierClick_addOnly(items, i) ==
    LET isExpanded == items[i].aria = "true"
    IN  [j \in Items |->
           IF j # i THEN Collapsed
           ELSE [aria |-> BoolAttr(~isExpanded), active |-> TRUE]]

\* the click listener of atelier card header i
atelierClick(items, i) ==
    LET isExpanded == items[i].aria = "true"
    IN  [j \in Items |->
           IF j # i THEN Collapsed
           ELSE [aria |-> BoolAttr(~isExpanded), active |-> ~items[i].active]]

\* what the activation did to the group, for the record in lastEvent
itemBranch(items, i) ==
    (IF items[i].aria = "true" THEN "collapse" ELSE "expand")
    \o (IF Expanded(items) \ {i} # {} THEN "+close" ELSE "")

\* click on the header of accordion item i
ClickAccordionHeader(i) ==
    /\ pc = "ready"
    /\ "accordion" \in wired
    /\ accordion' = accordionClick(accordion, i)
    /\ dom' = documentClick(dom, FALSE, FALSE)
    /\ lastEvent' = Event("click:accordion", i, itemBranch(accordion, i))
    /\ UNCHANGED <<ctlVars, cfgVars, langVars, timers, scrollReq, scrollVars,
                   revealVars, layoutVars, atelier, resizeVars>>

\* click on the header of atelier card i
ClickAtelierHeader(i) ==
    /\ pc = "ready"
    /\ "atelier" \in wired
    /\ atelier' = atelierClick(atelier, i)
    /\ dom' = documentClick(dom, FALSE, FALSE)
    /\ lastEvent' = Event("click:atelier", i, itemBranch(atelier, i))
    /\ UNCHANGED <<ctlVars, cfgVars, langVars, timers, scrollReq, scrollVars,
                   revealVars, layoutVars, accordion, resizeVars>>

InitAccordion ==
    /\ InitCtl
    /\ page = Present
    /\ InitLangFixed
    /\ InitOverlayFixed
    /\ InitScrollFixed
    /\ InitRevealFixed
    /\ InitLayoutFixed
    /\ accordion \in [Items -> ItemStates]
    /\ atelier \in [Items -> ItemStates]
    /\ InitResizeFixed

NextAccordion ==
    \/ IIFE
    \/ \E i \in Items : ClickAccordionHeader(i)
    \/ \E i \in Items : ClickAtelierHeader(i)

SpecAccordion == InitAccordion /\ [][NextAccordion]_vars

\* one header activation of a group: the activated item's expansion is
\* negated and every other item of the group ends collapsed
ActivationSingleOpen(before, after, i) ==
    /\ (i \in Expanded(after)) <=> (i \notin Expanded(before))
    /\ Expanded(after) \subseteq {i}

\* C11: a header activation in the accordion group, and likewise in the
\* atelier group, negates the activated item's expansion state and leaves every
\* other item of the group collapsed; so after an activation at most one item
\* of the group is expanded, and no later step brings a second one.
C11_SingleOpen ==
    [][/\ lastEvent'.type = "click:accordion" =>
            /\ ActivationSingleOpen(accordion, accordion', lastEvent'.arg)
            /\ Cardinality(Expanded(accordion')) <= 1
       /\ lastEvent'.type = "click:atelier" =>
            /\ ActivationSingleOpen(atelier, atelier', lastEvent'.arg)
            /\ Cardinality(Expanded(atelier')) <= 1
       /\ Cardinality(Expanded(accordion)) <= 1 =>
            Cardinality(Expanded(accordion')) <= 1
       /\ Cardinality(Expanded(atelier)) <= 1 =>
            Cardinality(Expanded(atelier')) <= 1]_vars

\* an accordion item was expanded while another one was open, and is now the
\* only expanded item of its group
C11_Witness ==
    /\ lastEvent.type = "click:accordion"
    /\ lastEvent.branch = "expand+close"
    /\ Expanded(accordion) = {lastEvent.arg}

\* C19: in both groups, aria-expanded is 'true' exactly when the content pane
\* has the active class, after any sequence of header activations.
C19_AriaMatchesActive ==
    /\ \A i \in Items : (accordion[i].aria = "true") <=> accordion[i].active
    /\ \A i \in Items : (atelier[i].aria = "true") <=> atelier[i].active

\* an expanded atelier card has just been collapsed by its own header
C19_Witness ==
    /\ lastEvent.type = "click:atelier"
    /\ lastEvent.branch = "collapse"
    /\ atelier[lastEvent.arg] = Collapsed

\* ------------------------------------------------- menu / lightbox properties
\* clicks whose target is outside both the menu panel and the toggle
OutsideClicks ==
    {"click:elsewhere", "click:anchor", "click:gallery", "click:lbClose",
     "click:lbBackdrop", "click:lbImage", "click:backToTop"}

\* C12: from closed, a click on the toggle leaves the menu open; from open, a
\* click on the toggle, on a mobile nav link or outside menu and toggle, and
\* the Escape key, leave it closed; a click inside the panel off the links and
\* any other key leave it open.
C12_MenuTransitions ==
    [][LET t == lastEvent'.type
           b == lastEvent'.branch
       IN  /\ (~dom.menuActive /\ t = "click:toggle") => dom'.menuActive
           /\ (/\ dom.menuActive
               /\ \/ t \in {"click:toggle", "click:mobileLink"} \cup OutsideClicks
                  \/ t = "keydown" /\ b # "other")
              => ~dom'.menuActive
           /\ (/\ dom.menuActive
               /\ \/ t = "click:panel"
                  \/ t = "keydown" /\ b = "other")
              => dom'.menuActive]_vars

\* the toggle was clicked on a closed menu and the menu is open
C12_Witness ==
    /\ lastEvent.type = "click:toggle"
    /\ lastEvent.branch = "open"
    /\ dom.menuActive

\* C13: a click on a same-page fragment link prevents the default and
\* requests a scroll exactly when the href is not '#' and resolves; then the
\* menu ends closed and the requested position is the element's position
\* minus the header's height. Otherwise the listener changes nothing (the
\* scroll request stays, and so does the document unless another listener of
\* the same click, the link's or the click-outside one, closes the menu).
C13_SmoothScroll ==
    [][lastEvent'.type \in {"click:anchor", "click:mobileLink"}
       /\ lastEvent'.branch \in AnchorHrefs
       => IF lastEvent'.branch # "#" /\ Resolves(lastEvent'.branch)
          THEN /\ lastEvent'.arg = 2
               /\ ~dom'.menuActive
               /\ scrollReq' = << targetTop - headerHeight >>
          ELSE /\ lastEvent'.arg = 0
               /\ scrollReq' = scrollReq
               /\ (lastEvent'.type = "click:anchor" /\ ~dom.menuActive)
                  => dom' = dom]_vars

\* C14: while the menu or the lightbox is open the page scroll is locked.
C14_OverlayLocksScroll ==
    (dom.menuActive \/ dom.lbActive) => dom.overflow = "hidden"

\* C15: while the lightbox is open its image shows the thumbnail activated
\* last (the one whose alt text the open handler stored with the src).
C15_OpenLightboxShowsLast ==
    dom.lbActive => (dom.lbSrc # 0 /\ dom.lbSrc = dom.lbAlt)

\* C18: the panel's active class, the toggle's active class and the toggle's
\* aria-expanded agree.
C18_MenuIndicatorsAgree ==
    /\ dom.menuActive <=> dom.toggleActive
    /\ dom.toggleActive <=> (dom.ariaExpanded = "true")

\* an open menu has just been closed by a click outside it
C18_Witness ==
    /\ lastEvent.type = "click:elsewhere"
    /\ lastEvent.branch = "close"
    /\ ~dom.menuActive
    /\ ~dom.toggleActive
    /\ dom.ariaExpanded = "false"

\* ------------------------------------------------------ debounced resize
Heights == {600, 700, 800}
\* elapsed time between two observations, in ms
TimeSteps == {25, 50}
Min(a, b) == IF a < b THEN a ELSE b
Max(a, b) == IF a > b THEN a ELSE b

debounceClear_never(ts) == ts

\* clearTimeout(timeout): the closure's one timer, if still pending, is dropped
debounceClear(ts) == <<>>

\* the pending timeouts after dt more ms
elapse(ts, dt) == [i \in 1..Len(ts) |-> Max(0, ts[i] - dt)]

\* index of the oldest timeout that is due, 0 if none is
DueTimer(ts) ==
    IF \E i \in 1..Len(ts) : ts[i] = 0
    THEN CHOOSE i \in 1..Len(ts) :
           ts[i] = 0 /\ \A j \in 1..Len(ts) : ts[j] = 0 => i <= j
    ELSE 0

RemoveAt(ts, i) == [j \in 1..(Len(ts) - 1) |-> IF j < i THEN ts[j] ELSE ts[j + 1]]

\* the window is resized to inner height h: debounce's executedFunction
Resize(h) ==
    /\ pc = "ready"
    /\ "resize" \in wired
    /\ Len(debounceClear(debTimers)) < MaxDebounce
    /\ innerHeight' = h
    /\ debTimers' = Append(debounceClear(debTimers), DebounceWait)
    /\ sinceResize' = 0
    /\ vhRuns' = 0
    /\ burst' = IF debTimers = <<>> THEN 1 ELSE Min(burst + 1, MaxBurst)
    /\ lastEvent' = Event("resize", h, "")
    /\ UNCHANGED <<ctlVars, cfgVars, langVars, overlayVars, scrollVars,
                   revealVars, layoutVars, accVars, vh>>

\* dt ms pass with no event; a timeout may be served late, never early
Advance(dt) ==
    /\ pc = "ready"
    /\ sinceResize < DebounceWait \/ \E i \in 1..Len(debTimers) : debTimers[i] > 0
    /\ debTimers' = elapse(debTimers, dt)
    /\ sinceResize' = Min(DebounceWait, sinceResize + dt)
    /\ lastEvent' = Event("advance", dt, "")
    /\ UNCHANGED <<ctlVars, cfgVars, langVars, overlayVars, scrollVars,
                   revealVars, layoutVars, accVars, innerHeight, vh, vhRuns,
                   burst>>

\* the oldest due debounce timeout fires: func.apply(context, args)
DebounceFires ==
    /\ DueTimer(debTimers) # 0
    /\ vh' = setViewportHeight(innerHeight)
    /\ vhRuns' = vhRuns + 1
    /\ debTimers' = RemoveAt(debTimers, DueTimer(debTimers))
    /\ lastEvent' = Event("timer:debounce", 0, "")
    /\ UNCHANGED <<ctlVars, cfgVars, langVars, overlayVars, scrollVars,
                   revealVars, layoutVars, accVars, innerHeight, sinceResize,
                   burst>>

InitResize ==
    /\ InitCtl
    /\ page = Present
    /\ InitLangFixed
    /\ InitOverlayFixed
    /\ InitScrollFixed
    /\ InitRevealFixed
    /\ InitLayoutFixed
    /\ InitAccFixed
    /\ innerHeight \in Heights
    /\ vh = 0
    /\ debTimers = <<>>
    /\ sinceResize = DebounceWait
    /\ vhRuns = 0
    /\ burst = 0

NextResize ==
    \/ IIFE
    \/ \E h \in Heights : Resize(h)
    \/ \E dt \in TimeSteps : Advance(dt)
    \/ DebounceFires

\* time passes and a due timeout is eventually served
SpecResize ==
    /\ InitResize
    /\ [][NextResize]_vars
    /\ WF_vars(\E dt \in TimeSteps : Advance(dt))
    /\ WF_vars(DebounceFires)

\* C16: at most one debounce timeout is pending; setViewportHeight does not
\* run within 100 ms of a resize event; once a resize event has arrived, the
\* pending timeout and the runs since that event add up to one, and unless
\* resize events keep arriving the one run happens and --vh holds the last
\* height.
C16_Debounce ==
    /\ [](Len(debTimers) <= 1)
    /\ [](burst > 0 => Len(debTimers) + vhRuns = 1)
    /\ [][lastEvent'.type = "timer:debounce" =>
            sinceResize >= DebounceWait]_vars
    /\ \/ []<>(sinceResize = 0)
       \/ <>[](burst > 0 =>
                 /\ debTimers = <<>>
                 /\ vhRuns = 1
                 /\ vh = setViewportHeight(innerHeight))

\* a burst of at least two resize events has ended and its one timeout has run
C16_Witness ==
    /\ lastEvent.type = "timer:debounce"
    /\ burst >= 2
    /\ vhRuns = 1
    /\ debTimers = <<>>
    /\ vh = setViewportHeight(innerHeight)

\* ------------------------------------------------------ initial rendering
DefaultLang_en == "en"

\* let currentLang = 'fr'
DefaultLang == "fr"

\* The page's markup, as the specification describes it: each translatable
\* element is authored with its French value as content (an element with no
\* French value holds some other markup), <html lang="fr">, and the French
\* selector carries the active class.
MarkupContent(d) ==
    [e \in Translatables |->
       IF d[e].fr # <<>> THEN SetInnerHTML(d[e].fr)
       ELSE SetInnerHTML(<<"Markup", BR>>)]

InitMarkup ==
    /\ InitCtl
    /\ page = Present
    /\ data \in [Translatables -> TranslationPairs]
    /\ langBtns \in [LangBtnIds -> [lang : BtnLangs, inMenu : {FALSE}]]
    /\ currentLang = DefaultLang
    /\ docLang = "fr"
    /\ btnActive = [i \in LangBtnIds |-> langBtns[i].lang = "fr"]
    /\ content = MarkupContent(data)
    /\ InitOverlayFixed
    /\ InitScrollFixed
    /\ InitRevealFixed
    /\ InitLayoutFixed
    /\ InitAccFixed
    /\ InitResizeFixed

NextMarkup == IIFE \/ \E i \in LangBtnIds : ClickLangBtn(i)

SpecMarkup == InitMarkup /\ [][NextMarkup]_vars

touchendClicks_unconditional(cancelable) == 1

\* the touchend listener: the clicks it dispatches through this.click()
touchendClicks(cancelable) == IF "touch" \in wired /\ cancelable THEN 1 ELSE 0

\* the touchend listener called e.preventDefault()
touchendPrevents(cancelable) == "touch" \in wired /\ cancelable

\* the browser's own click after a tap, unless touchend's default was prevented
nativeClicks(cancelable) == IF touchendPrevents(cancelable) THEN 0 ELSE 1

tapClicks(cancelable) == touchendClicks(cancelable) + nativeClicks(cancelable)

\* how the tap was dispatched, for the record in lastEvent
tapBranch(cancelable) ==
    (IF cancelable THEN "cancelable:" ELSE "passive:")
    \o (IF touchendClicks(cancelable) > 0 THEN "synthetic" ELSE "")
    \o (IF touchendClicks(cancelable) > 0 /\ nativeClicks(cancelable) > 0
        THEN "+" ELSE "")
    \o (IF nativeClicks(cancelable) > 0 THEN "native" ELSE "")

\* n click events on #menu-toggle, one after the other
RECURSIVE toggleClicks(_, _)
toggleClicks(d, n) ==
    IF n = 0 THEN d
    ELSE toggleClicks(IF "menu" \in wired THEN toggleMenu(d) ELSE d, n - 1)

\* n click events on accordion header i: its listener, then the document's
RECURSIVE headerClicks(_, _, _)
headerClicks(st, i, n) ==
    IF n = 0 THEN st
    ELSE headerClicks(
           [items |-> IF "accordion" \in wired
                      THEN accordionClick(st.items, i) ELSE st.items,
            d |-> documentClick(st.d, FALSE, FALSE)],
           i, n - 1)

\* one tap on #menu-toggle: touchend, then the clicks it leads to
TapToggle(cancelable) ==
    /\ pc = "ready"
    /\ page.menuToggle
    /\ dom' = toggleClicks(dom, tapClicks(cancelable))
    /\ lastEvent' = Event("tap:toggle", 0, tapBranch(cancelable))
    /\ UNCHANGED <<extraVars, ctlVars, cfgVars, langVars, timers, scrollReq,
                   scrollVars, revealVars>>

\* one tap on the header of accordion item i
TapAccordionHeader(i, cancelable) ==
    /\ pc = "ready"
    /\ LET r == headerClicks([items |-> accordion, d |-> dom], i,
                             tapClicks(cancelable))
       IN  /\ accordion' = r.items
           /\ dom' = r.d
    /\ lastEvent' = Event("tap:accordion", i, tapBranch(cancelable))
    /\ UNCHANGED <<ctlVars, cfgVars, langVars, timers, scrollReq, scrollVars,
                   revealVars, layoutVars, atelier, resizeVars>>

InitTouch ==
    /\ InitCtl
    /\ page = Present
    /\ InitLangFixed
    /\ InitOverlayFixed
    /\ InitScrollFixed
    /\ InitRevealFixed
    /\ InitLayoutFixed
    /\ accordion \in [Items -> ItemStates]
    /\ atelier = [i \in Items |-> Collapsed]
    /\ InitResizeFixed

NextTouch ==
    \/ IIFE
    \/ \E cancelable \in BOOLEAN : TapToggle(cancelable)
    \/ \E i \in Items, cancelable \in BOOLEAN : TapAccordionHeader(i, cancelable)
    \/ ClickToggle
    \/ \E i \in Items : ClickAccordionHeader(i)
    \/ ClickMenuPanel
    \/ ClickElsewhere
    \/ \E key \in Keys : Keydown(key)

SpecTouch == InitTouch /\ [][NextTouch]_vars

\* C20: one tap leads to exactly one click: a cancelable touchend is prevented
\* and answered by one synthetic click, a non-cancelable one by the native
\* click alone; a tap on the menu toggle flips the menu once, a tap on an
\* accordion header acts as one click on it.
C20_OneTapOneClick ==
    [][/\ lastEvent'.type \in {"tap:toggle", "tap:accordion"}
          => lastEvent'.branch \in {"cancelable:synthetic", "passive:native"}
       /\ lastEvent'.type = "tap:toggle"
          => (dom'.menuActive <=> ~dom.menuActive)
       /\ lastEvent'.type = "tap:accordion"
          => accordion' = accordionClick(accordion, lastEvent'.arg)]_vars

\* a cancelable tap on the toggle has opened the menu, by its synthetic click
C20_Witness ==
    /\ lastEvent.type = "tap:toggle"
    /\ lastEvent.branch = "cancelable:synthetic"
    /\ dom.menuActive

====
